---- MODULE Spec2Model ----
(***************************************************************************)
(* A model of src/main.py: a Flask service that proxies query creation and *)
(* query execution to an upstream analytics API.  Every inbound request is *)
(* handled by its own thread (Requests); the only state the threads share  *)
(* is the module global application_status.  A handler takes one step per  *)
(* access to that global and per upstream HTTP call; the computation that  *)
(* follows a call in the same thread (status checks, JSON parsing, the     *)
(* loop test, building the response) belongs to the step of that call.     *)
(* The upstream service is the environment: each call is answered by any   *)
(* response of the set given for its endpoint.                             *)
(***************************************************************************)
EXTENDS Integers, Sequences, FiniteSets, TLC

\* ------------------------------------------------------------ constants

APPLICATION_START_TIMEOUT == 300
QUERY_EXECUTION_TIMEOUT == 300
APP_CHECK_INTERVAL == 5
EXEC_CHECK_INTERVAL == 2

\* Largest page number the modelled clients ask for.
MaxPage == 2

\* Handler threads.
Requests == {1, 2}

\* Python's None, a missing dict key, a missing header.
Absent == "<None>"

\* Consider both 200 and 201 as success.
SuccessCodes == {200, 201}
ErrorCodes == {404, 500}
StatusCodes == SuccessCodes \cup ErrorCodes

\* ----------------------------------------------------- text conversions

Digit(d) ==
    CASE d = 0 -> "0" [] d = 1 -> "1" [] d = 2 -> "2" [] d = 3 -> "3"
      [] d = 4 -> "4" [] d = 5 -> "5" [] d = 6 -> "6" [] d = 7 -> "7"
      [] d = 8 -> "8" [] d = 9 -> "9"

\* str(n) of a non-negative integer, as an f-string formats it.
RECURSIVE Str(_)
Str(n) == IF n < 10 THEN Digit(n) ELSE Str(n \div 10) \o Digit(n % 10)

\* The same text as the sequence of its characters (a query-string value).
RECURSIVE Chars(_)
Chars(n) == IF n < 10 THEN <<Digit(n)>> ELSE Chars(n \div 10) \o <<Digit(n % 10)>>

DigitChars == {"0", "1", "2", "3", "4", "5", "6", "7", "8", "9"}

DigitValue(c) ==
    CASE c = "0" -> 0 [] c = "1" -> 1 [] c = "2" -> 2 [] c = "3" -> 3
      [] c = "4" -> 4 [] c = "5" -> 5 [] c = "6" -> 6 [] c = "7" -> 7
      [] c = "8" -> 8 [] c = "9" -> 9

RECURSIVE DigitsValue(_)
DigitsValue(cs) ==
    IF cs = <<>> THEN 0
    ELSE 10 * DigitsValue(SubSeq(cs, 1, Len(cs) - 1)) + DigitValue(cs[Len(cs)])

\* int(text): an optional sign and at least one decimal digit; anything else
\* raises ValueError.
ParseInt(cs) ==
    LET signed == Len(cs) > 0 /\ cs[1] \in {"-", "+"}
        digits == IF signed THEN Tail(cs) ELSE cs
    IN  IF Len(digits) > 0 /\ \A i \in 1..Len(digits) : digits[i] \in DigitChars
        THEN [ok |-> TRUE,
              n |-> IF signed /\ cs[1] = "-" THEN 0 - DigitsValue(digits)
                    ELSE DigitsValue(digits)]
        ELSE [ok |-> FALSE, n |-> 0]

\* ", ".join(names)
RECURSIVE Join(_)
Join(names) ==
    IF names = <<>> THEN ""
    ELSE IF Len(names) = 1 THEN names[1]
    ELSE names[1] \o ", " \o Join(Tail(names))

\* ------------------------------------------------- upstream responses

\* A response body.  json says whether response.json() parses it; for a JSON
\* object, keys are the keys it has and the fields give their values.
EmptyObject ==
    [json |-> TRUE, text |-> "{...}", keys |-> {}, status |-> "", errors |-> <<>>,
     detail |-> "", message |-> "", error |-> "", slug |-> "", id |-> "",
     presigned_url |-> ""]

NotJson(t) == [EmptyObject EXCEPT !.json = FALSE, !.text = t]

\* "k" in obj
Has(obj, k) == k \in obj.keys

\* obj.get("k")
Get(obj, k) == IF Has(obj, k) THEN obj[k] ELSE Absent

\* Error payloads: every combination of an errors array (empty, a first entry
\* without detail, a first entry with detail), detail, message and error; a
\* body that is no JSON; an empty body.
ErrorsArrays ==
    {<<>>, <<[is_object |-> TRUE, has_detail |-> FALSE, detail |-> ""]>>,
     <<[is_object |-> TRUE, has_detail |-> TRUE, detail |-> "Query does not exist"]>>,
     <<[is_object |-> FALSE, has_detail |-> FALSE, detail |-> ""]>>}

ErrorBodies ==
    {[EmptyObject EXCEPT !.keys = ks,
                         !.errors = IF "errors" \in ks THEN es ELSE <<>>,
                         !.detail = IF "detail" \in ks THEN "Not found" ELSE "",
                         !.message = IF "message" \in ks THEN "upstream message" ELSE "",
                         !.error = IF "error" \in ks THEN "upstream error" ELSE ""] :
        ks \in SUBSET {"errors", "detail", "message", "error"}, es \in ErrorsArrays}
    \cup {NotJson("<html>Bad Gateway</html>"), NotJson("")}

\* GET application/ and POST application/start/ answer {"status": ...}.
ApplicationBodies ==
    {[EmptyObject EXCEPT !.keys = {"status"}, !.status = s] : s \in {"active", "starting"}}

\* POST queries/ answers {"slug": ...}.
QueryBodies ==
    {[EmptyObject EXCEPT !.keys = {"slug"}, !.slug = "q-slug"],
     [EmptyObject EXCEPT !.keys = {"slug"}, !.slug = ""],
     EmptyObject}

\* POST queries/<slug>/execution/ answers {"id": ...}.
ExecutionCreatedBodies ==
    {[EmptyObject EXCEPT !.keys = {"id"}, !.id = "exec-1"]}

\* GET queries/<slug>/execution/<id>/ answers {"status", "error"?, "message"?};
\* error and message come with a failed execution.
ExecutionBodies ==
    {[EmptyObject EXCEPT !.keys = {"status"}, !.status = s] : s \in {"pending", "complete"}}
    \cup {[EmptyObject EXCEPT !.keys = {"status"} \cup ks,
                              !.status = "failed",
                              !.message = IF "message" \in ks THEN "upstream message" ELSE "",
                              !.error = IF "error" \in ks THEN "upstream error" ELSE ""] :
            ks \in SUBSET {"error", "message"}}

\* GET .../results/ answers {"presigned_url": ...}.
ResultsBodies ==
    {[EmptyObject EXCEPT !.keys = {"presigned_url"}, !.presigned_url = "https://bucket/page.parquet"],
     EmptyObject}

\* What upstream may answer on an endpoint whose well-formed bodies are
\* bodies: a success code with a well-formed body or with a body that is no
\* JSON, or an error code with any error payload or well-formed body.
UpstreamResponses(bodies) ==
    [code : SuccessCodes, body : bodies \cup {NotJson("<html>Bad Gateway</html>")}]
    \cup [code : ErrorCodes, body : ErrorBodies \cup bodies]

\* The same with one success code, one error code and two error payloads.
FewUpstreamResponses(bodies) ==
    [code : {200}, body : bodies \cup {NotJson("<html>Bad Gateway</html>")}]
    \cup [code : {500},
          body : {NotJson("<html>Bad Gateway</html>"),
                  [EmptyObject EXCEPT !.keys = {"detail"}, !.detail = "Not found"]}
                 \cup bodies]

\* The file behind the presigned URL: the download's status code and what
\* pd.read_parquet makes of the content.
Tables == {<<>>, <<"row-1">>, <<"row-1", "row-2">>}
DownloadResponses == [code : {200, 403}, rows : Tables, parquet : BOOLEAN]
FewDownloadResponses == [code : {200, 403}, rows : {<<>>, <<"row-1">>}, parquet : {TRUE}]

\* ---------------------------------------------------- inbound requests

\* A JSON value given for "limit".
NullLimit == [kind |-> "null", n |-> 0, chars |-> <<>>]
LimitValues ==
    {NullLimit,
     [kind |-> "int", n |-> 0, chars |-> <<>>],
     [kind |-> "int", n |-> 10, chars |-> <<>>],
     [kind |-> "str", n |-> 0, chars |-> <<"5">>],
     [kind |-> "str", n |-> 0, chars |-> <<"a", "b", "c">>]}

NoBody == [keys |-> {}, sql_query |-> "", layer |-> "", table |-> "", limit |-> NullLimit]

\* The JSON bodies a client posts: any subset of the four keys, each string
\* empty or not, each limit value.
CreateBodies ==
    {[keys |-> ks,
      sql_query |-> IF "sql_query" \in ks THEN s ELSE "",
      layer |-> IF "layer" \in ks THEN ly ELSE "",
      table |-> IF "table" \in ks THEN tb ELSE "",
      limit |-> IF "limit" \in ks THEN lm ELSE NullLimit] :
        ks \in SUBSET {"sql_query", "layer", "table", "limit"},
        s \in {"", "SELECT 1"}, ly \in {"", "raw", "my\"layer"}, tb \in {"", "orders"},
        lm \in LimitValues}

\* The page_number query-string values: none, texts that are no integer, and
\* the integers -1 .. MaxPage.
NoArg == [present |-> FALSE, chars |-> <<>>]
PageArgs ==
    {NoArg}
    \cup {[present |-> TRUE, chars |-> cs] :
            cs \in {<<>>, <<"a", "b", "c">>, <<"1", ".", "5">>, <<"-", "1">>}}
    \cup {[present |-> TRUE, chars |-> Chars(n)] : n \in 0..MaxPage}

HeaderValues == {Absent, "", "key-A", "key-B"}

Request(route, key, slug, arg, body) ==
    [route |-> route, x_api_key |-> key, query_slug |-> slug, page_arg |-> arg, body |-> body]

NoRequest == Request("none", Absent, Absent, NoArg, NoBody)

\* Every request a client may send.
AllRequests ==
    {Request("health", k, Absent, NoArg, NoBody) : k \in {Absent, "key-A"}}
    \cup {Request("create", k, Absent, NoArg, b) : k \in HeaderValues, b \in CreateBodies}
    \cup {Request("results", k, "q-slug", a, NoBody) : k \in HeaderValues, a \in PageArgs}

\* The requests of two tenants that run side by side: thread 1 serves key-A,
\* thread 2 serves key-B, each a well-formed request of either query route.
TenantKey(r) == IF r = 1 THEN "key-A" ELSE "key-B"
TenantRequests(r) ==
    {Request("create", TenantKey(r), Absent, NoArg,
             [NoBody EXCEPT !.keys = {"sql_query"}, !.sql_query = "SELECT 1"]),
     Request("results", TenantKey(r), "q-slug", NoArg, NoBody)}

\* --------------------------------------------------- service responses

NoResponse ==
    [code |-> 0, error |-> Absent, details |-> Absent, status |-> Absent,
     message |-> Absent, query_slug |-> Absent, sql_query |-> Absent,
     page_number |-> 0, page |-> 0, has_data |-> FALSE, data |-> <<>>]

\* jsonify({"error": msg}), code
ErrorResponse(code, msg) == [NoResponse EXCEPT !.code = code, !.error = msg]

\* Flask's answer to an exception no handler catches.
InternalServerError == ErrorResponse(500, "Internal Server Error")

\* --------------------------------------------------------- validation

\* bool(s) of a string or None.
Truthy(s) == s # Absent /\ s # ""

RequireApiKeyOnCreateOnly(rq) == rq.route = "results" \/ Truthy(rq.x_api_key)

\* require_api_key: the request passes when the header holds a non-empty value.
RequireApiKey(rq) == Truthy(rq.x_api_key)

BuildSqlQueryUnquoted(layer, table, limit) ==
    LET sql_query == "SELECT\n\t*\nFROM\n\t" \o layer \o "." \o table
    IN  IF limit.is_none THEN sql_query ELSE sql_query \o "\nLIMIT " \o Str(limit.n)

\* build_sql_query(layer, table, limit)
BuildSqlQuery(layer, table, limit) ==
    LET quoted_layer == "\"" \o layer \o "\""
        quoted_table == "\"" \o table \o "\""
        sql_query == "SELECT\n\t*\nFROM\n\t" \o quoted_layer \o "." \o quoted_table
    IN  IF limit.is_none THEN sql_query ELSE sql_query \o "\nLIMIT " \o Str(limit.n)

NoLimit == [is_none |-> TRUE, n |-> 0]

\* int(limit) of a JSON value.
IntOfLimit(limit) ==
    IF limit.kind = "int" THEN [ok |-> TRUE, n |-> limit.n] ELSE ParseInt(limit.chars)

Reject(msg) == [ok |-> FALSE, error |-> msg, sql_query |-> Absent]
Accept(sql) == [ok |-> TRUE, error |-> Absent, sql_query |-> sql]

DisallowedParamsAny(data) ==
    IF data.keys \cap {"layer", "table", "limit"} # {} THEN <<"layer", "table", "limit">>
    ELSE <<>>

\* [param for param in ["layer", "table", "limit"] if param in data]
DisallowedParams(data) ==
    SelectSeq(<<"layer", "table", "limit">>, LAMBDA param : param \in data.keys)

\* The table-specification branch of create_query_endpoint.
TableModeValidation(data) ==
    LET layer == Get(data, "layer")
        table == Get(data, "table")
        given == "limit" \in data.keys /\ data.limit.kind # "null"
        parsed == IntOfLimit(data.limit)
    IN  IF ~Truthy(layer)
        THEN Reject("Missing required parameter 'layer' when 'sql_query' is not provided")
        ELSE IF ~Truthy(table)
        THEN Reject("Missing required parameter 'table' when 'sql_query' is not provided")
        ELSE IF given /\ ~parsed.ok THEN Reject("Limit must be a valid integer")
        ELSE IF given /\ parsed.n <= 0 THEN Reject("Limit must be a positive integer")
        ELSE Accept(BuildSqlQuery(layer, table,
                                  IF given THEN [is_none |-> FALSE, n |-> parsed.n]
                                  ELSE NoLimit))

\* create_query_endpoint up to the SQL text it goes on with.
CreateValidation(data) ==
    IF data.keys = {} THEN Reject("No JSON data provided")
    ELSE IF Truthy(Get(data, "sql_query"))
    THEN IF DisallowedParams(data) # <<>>
         THEN Reject("When 'sql_query' is provided, these parameters are not allowed: "
                     \o Join(DisallowedParams(data)))
         ELSE Accept(data.sql_query)
    ELSE TableModeValidation(data)

PageValidationNonNegative(arg) ==
    LET parsed == IF arg.present THEN ParseInt(arg.chars) ELSE [ok |-> TRUE, n |-> 1]
    IN  IF ~parsed.ok
        THEN [ok |-> FALSE, error |-> "Page number must be a valid integer", page_number |-> 0]
        ELSE IF parsed.n < 0
        THEN [ok |-> FALSE, error |-> "Page number must be a positive integer", page_number |-> 0]
        ELSE [ok |-> TRUE, error |-> Absent, page_number |-> parsed.n]

\* execute_query_endpoint: int(request.args.get("page_number", 1)), at least 1.
PageValidation(arg) ==
    LET parsed == IF arg.present THEN ParseInt(arg.chars) ELSE [ok |-> TRUE, n |-> 1]
    IN  IF ~parsed.ok
        THEN [ok |-> FALSE, error |-> "Page number must be a valid integer", page_number |-> 0]
        ELSE IF parsed.n < 1
        THEN [ok |-> FALSE, error |-> "Page number must be a positive integer", page_number |-> 0]
        ELSE [ok |-> TRUE, error |-> Absent, page_number |-> parsed.n]

\* -------------------------------------------------------------- state

VARIABLES
    application_status,  \* the module global: Absent (None) or "active"
    loc,                 \* per thread: where its handler stands, and its local variables
    req,                 \* per thread: the inbound request it is handling
    response,            \* per thread: the response it has sent
    obs,                 \* per thread: what an observer of the handling has seen
    seen_active          \* some ensure_application_running call was told "active"

vars == <<application_status, loc, req, response, obs, seen_active>>

NoExecution == [status |-> Absent, error |-> Absent, message |-> Absent]
NoTable == [is_none |-> TRUE, rows |-> <<>>]

IdleLocals ==
    [pc |-> "idle", api_key |-> Absent, query_slug |-> Absent, page_number |-> 0,
     sql_query |-> Absent, data |-> Absent, retry_count |-> 0, ready |-> Absent,
     execution_id |-> Absent, execution |-> NoExecution, df |-> NoTable,
     error_message |-> Absent]

\* An upstream call as the wire shows it.
NoCall ==
    [endpoint |-> "none", x_api_key |-> Absent, query_slug |-> Absent,
     page_number |-> 0, sql_query |-> Absent]

NoAnswer == [code |-> 0, body |-> EmptyObject]

\* call: the last HTTP call the handling made; polls, slept: the GETs and the
\* seconds of sleep of the poll loop it is in; flag_read, flag_set: its
\* ensure_application_running call read application_status, set it to
\* "active"; ensure_exit: the place where that call ended; triggered:
\* the answer to its execution request, until its next call; refused: the
\* answer that refused its status poll or its results request; created: the
\* answer to its query-creation POST; decoder: what
\* process_parquet_in_memory returned to it.
NoObservation ==
    [flag_read |-> FALSE, flag_set |-> FALSE, call |-> NoCall, polls |-> 0,
     slept |-> 0, ensure_exit |-> "none", triggered |-> NoAnswer, refused |-> NoAnswer,
     created |-> NoAnswer,
     decoder |-> "not called"]

Init ==
    /\ application_status = Absent
    /\ loc = [r \in Requests |-> IdleLocals]
    /\ req = [r \in Requests |-> NoRequest]
    /\ response = [r \in Requests |-> NoResponse]
    /\ obs = [r \in Requests |-> NoObservation]
    /\ seen_active = FALSE

HeadersOfOther(r) == [x_api_key |-> loc[CHOOSE q \in Requests : q # r].api_key]

\* headers = {"x-api-key": api_key}
Headers(r) == [x_api_key |-> loc[r].api_key]

ApplicationCall(r, endpoint) ==
    [NoCall EXCEPT !.endpoint = endpoint, !.x_api_key = Headers(r).x_api_key]

\* The handler of thread r ends with this response.
Respond(r, l, resp) ==
    /\ loc' = [loc EXCEPT ![r] = [l EXCEPT !.pc = "done"]]
    /\ response' = [response EXCEPT ![r] = resp]

\* ------------------------------------------------- routes: the entry

\* A request arrives at thread r: require_api_key, then the route's
\* validation, up to the call of ensure_application_running.
Receive(r, rq) ==
    /\ loc[r].pc = "idle"
    /\ req' = [req EXCEPT ![r] = rq]
    /\ UNCHANGED <<application_status, obs, seen_active>>
    /\ IF rq.route = "health"
       THEN Respond(r, loc[r], [NoResponse EXCEPT !.code = 200, !.status = "ok"])
       ELSE IF ~RequireApiKey(rq)
       THEN Respond(r, loc[r],
                    ErrorResponse(401, "Missing API key. Please provide 'x-api-key' header"))
       ELSE IF rq.route = "create"
       THEN LET v == CreateValidation(rq.body)
            IN  IF ~v.ok THEN Respond(r, loc[r], ErrorResponse(400, v.error))
                ELSE /\ loc' = [loc EXCEPT ![r] = [@ EXCEPT !.pc = "e_check",
                                                            !.api_key = rq.x_api_key,
                                                            !.sql_query = v.sql_query]]
                     /\ UNCHANGED response
       ELSE LET v == PageValidation(rq.page_arg)
            IN  IF ~v.ok THEN Respond(r, loc[r], ErrorResponse(400, v.error))
                ELSE /\ loc' = [loc EXCEPT ![r] = [@ EXCEPT !.pc = "e_check",
                                                            !.api_key = rq.x_api_key,
                                                            !.query_slug = rq.query_slug,
                                                            !.page_number = v.page_number]]
                     /\ UNCHANGED response

\* The response has gone out; the thread is free for the next request.
Forget(r) ==
    /\ loc[r].pc = "done"
    /\ loc' = [loc EXCEPT ![r] = IdleLocals]
    /\ req' = [req EXCEPT ![r] = NoRequest]
    /\ response' = [response EXCEPT ![r] = NoResponse]
    /\ obs' = [obs EXCEPT ![r] = NoObservation]
    /\ UNCHANGED <<application_status, seen_active>>

\* ------------------------------------------ ensure_application_running

IsSuccessOrNotFound(code) == code \in SuccessCodes \cup {404}

\* response.status_code in [200, 201]
IsSuccess(code) == code \in SuccessCodes

AppMaxRetriesPlusOne == APPLICATION_START_TIMEOUT \div APP_CHECK_INTERVAL + 1

\* max_retries = APPLICATION_START_TIMEOUT // check_interval
AppMaxRetries == APPLICATION_START_TIMEOUT \div APP_CHECK_INTERVAL

ApplicationIsActiveOrStarting(data) == data \in {"active", "starting"}

\* data.get("status") == "active"
ApplicationIsActive(data) == data = "active"

\* An exception no handler catches ends the handling: the frames and their
\* locals are gone, and Flask answers 500.
Raise(r, o) ==
    /\ Respond(r, IdleLocals, InternalServerError)
    /\ obs' = [obs EXCEPT ![r] = [o EXCEPT !.polls = 0, !.slept = 0]]
    /\ UNCHANGED <<application_status, seen_active>>

CheckFlagOrStartInProgress(r) ==
    /\ loc[r].pc = "e_check"
    /\ loc' = [loc EXCEPT ![r].pc =
                  IF \/ application_status = "active"
                     \/ \E q \in Requests \ {r} : loc[q].pc \in {"e_poll", "e_set"}
                  THEN "e_confirm" ELSE "e_start"]
    /\ obs' = [obs EXCEPT ![r].flag_read = TRUE]
    /\ UNCHANGED <<application_status, req, response, seen_active>>

\* if application_status == "active": the read of the global.
CheckFlag(r) ==
    /\ loc[r].pc = "e_check"
    /\ loc' = [loc EXCEPT ![r].pc =
                  IF application_status = "active" THEN "e_confirm" ELSE "e_start"]
    /\ obs' = [obs EXCEPT ![r].flag_read = TRUE]
    /\ UNCHANGED <<application_status, req, response, seen_active>>

ConfirmApplicationTrustsFlag(r, resp) ==
    /\ loc[r].pc = "e_confirm"
    /\ loc' = [loc EXCEPT ![r] = [@ EXCEPT !.pc = "e_ret", !.ready = "True"]]
    /\ obs' = [obs EXCEPT ![r] = [@ EXCEPT !.ensure_exit = "confirmed"]]
    /\ UNCHANGED <<application_status, req, response, seen_active>>

\* Verify it's still active: the confirmation GET, whose status code is not
\* looked at.
ConfirmApplication(r, resp) ==
    LET o == [obs[r] EXCEPT !.call = ApplicationCall(r, "GET application/")]
        status == Get(resp.body, "status")
        l == [loc[r] EXCEPT !.data = status]
    IN  /\ loc[r].pc = "e_confirm"
        /\ UNCHANGED req
        /\ IF ~resp.body.json
           THEN Raise(r, [o EXCEPT !.ensure_exit = "confirm_raised"])
           ELSE /\ seen_active' = (seen_active \/ status = "active")
                /\ UNCHANGED <<application_status, response>>
                /\ IF ApplicationIsActive(status)
                   THEN /\ loc' = [loc EXCEPT ![r] = [l EXCEPT !.pc = "e_ret", !.ready = "True"]]
                        /\ obs' = [obs EXCEPT ![r] = [o EXCEPT !.ensure_exit = "confirmed"]]
                   ELSE /\ loc' = [loc EXCEPT ![r] = [l EXCEPT !.pc = "e_reset"]]
                        /\ obs' = [obs EXCEPT ![r] = o]

\* application_status = None  # Reset if not active
ResetFlag(r) ==
    /\ loc[r].pc = "e_reset"
    /\ application_status' = Absent
    /\ loc' = [loc EXCEPT ![r].pc = "e_start"]
    /\ UNCHANGED <<req, response, obs, seen_active>>

\* The test of the while loop and, when the loop ends, of the if after it.
\* retry_count is not read again once the loop has ended on "active": it
\* is kept only where the loop ends because the retries are used up.
AfterApplicationStatus(r, l, o) ==
    IF ~ApplicationIsActive(l.data) /\ l.retry_count < AppMaxRetries
    THEN /\ loc' = [loc EXCEPT ![r] = [l EXCEPT !.pc = "e_poll"]]
         /\ obs' = [obs EXCEPT ![r] = o]
    ELSE IF ApplicationIsActive(l.data)
    THEN /\ loc' = [loc EXCEPT ![r] = [l EXCEPT !.pc = "e_set", !.retry_count = 0]]
         /\ obs' = [obs EXCEPT ![r] = [o EXCEPT !.polls = 0, !.slept = 0]]
    ELSE /\ loc' = [loc EXCEPT ![r] = [l EXCEPT !.pc = "e_ret", !.ready = "False"]]
         /\ obs' = [obs EXCEPT ![r] = [o EXCEPT !.ensure_exit = "timeout"]]

\* Start application if not running: the start POST.
StartApplication(r, resp) ==
    LET o == [obs[r] EXCEPT !.call = ApplicationCall(r, "POST application/start/")]
        status == Get(resp.body, "status")
    IN  /\ loc[r].pc = "e_start"
        /\ UNCHANGED req
        /\ IF ~IsSuccess(resp.code)
           THEN /\ loc' = [loc EXCEPT ![r] = [@ EXCEPT !.pc = "e_ret", !.ready = "False"]]
                /\ obs' = [obs EXCEPT ![r] = [o EXCEPT !.ensure_exit = "start_failed"]]
                /\ UNCHANGED <<application_status, response, seen_active>>
           ELSE IF ~resp.body.json
           THEN Raise(r, [o EXCEPT !.ensure_exit = "start_raised"])
           ELSE /\ seen_active' = (seen_active \/ status = "active")
                /\ UNCHANGED <<application_status, response>>
                /\ AfterApplicationStatus(r, [loc[r] EXCEPT !.data = status], o)

\* One turn of the loop: sleep, count, GET the status.
PollApplication(r, resp) ==
    LET o == [obs[r] EXCEPT !.call = ApplicationCall(r, "GET application/"),
                            !.polls = @ + 1,
                            !.slept = @ + APP_CHECK_INTERVAL]
        l == [loc[r] EXCEPT !.retry_count = @ + 1]
        status == Get(resp.body, "status")
    IN  /\ loc[r].pc = "e_poll"
        /\ UNCHANGED req
        /\ IF ~IsSuccess(resp.code)
           THEN /\ loc' = [loc EXCEPT ![r] = [l EXCEPT !.pc = "e_ret", !.ready = "False",
                                                       !.retry_count = 0]]
                /\ obs' = [obs EXCEPT ![r] = [o EXCEPT !.ensure_exit = "poll_failed",
                                                       !.polls = 0, !.slept = 0]]
                /\ UNCHANGED <<application_status, response, seen_active>>
           ELSE IF ~resp.body.json
           THEN Raise(r, [o EXCEPT !.ensure_exit = "poll_raised"])
           ELSE /\ seen_active' = (seen_active \/ status = "active")
                /\ UNCHANGED <<application_status, response>>
                /\ AfterApplicationStatus(r, [l EXCEPT !.data = status], o)

\* application_status = "active"; return True
SetFlag(r) ==
    /\ loc[r].pc = "e_set"
    /\ application_status' = "active"
    /\ loc' = [loc EXCEPT ![r] = [@ EXCEPT !.pc = "e_ret", !.ready = "True"]]
    /\ obs' = [obs EXCEPT ![r] = [@ EXCEPT !.flag_set = TRUE, !.ensure_exit = "started"]]
    /\ UNCHANGED <<req, response, seen_active>>

EnsureReturnIgnored(r) ==
    /\ loc[r].pc = "e_ret"
    /\ loc' = [loc EXCEPT ![r] =
                  [@ EXCEPT !.data = Absent, !.retry_count = 0,
                            !.pc = IF req[r].route = "create" THEN "c_post" ELSE "x_post"]]
    /\ obs' = [obs EXCEPT ![r] = [@ EXCEPT !.polls = 0, !.slept = 0, !.flag_set = FALSE,
                                           !.ensure_exit = "none"]]
    /\ UNCHANGED <<application_status, req, response, seen_active>>

\* Back in the route: if not ensure_application_running(api_key): 500,
\* else on to the query.  The locals of the call are gone.
EnsureReturn(r) ==
    LET l == [loc[r] EXCEPT !.data = Absent, !.retry_count = 0]
    IN  /\ loc[r].pc = "e_ret"
        /\ UNCHANGED <<application_status, req, seen_active>>
        /\ IF loc[r].ready # "True"
           THEN /\ Respond(r, loc[r], ErrorResponse(500, "Failed to start application"))
                /\ UNCHANGED obs
           ELSE /\ loc' = [loc EXCEPT ![r] =
                              [l EXCEPT !.pc = IF req[r].route = "create" THEN "c_post"
                                               ELSE "x_post"]]
                /\ obs' = [obs EXCEPT ![r] = [@ EXCEPT !.polls = 0, !.slept = 0,
                                                       !.flag_set = FALSE,
                                                       !.ensure_exit = "none"]]
                /\ UNCHANGED response

\* -------------------------------------------------------- create_query

\* create_query, then create_query_and_return_slug and the route's response:
\* a single POST; a status outside 200/201 or an empty slug gives
\* "Failed to create query".
CreateQuery(r, resp) ==
    LET o == [obs[r] EXCEPT !.call = [NoCall EXCEPT !.endpoint = "POST queries/",
                                                    !.x_api_key = Headers(r).x_api_key,
                                                    !.sql_query = loc[r].sql_query],
                            !.created = resp]
        query_slug == Get(resp.body, "slug")
    IN  /\ loc[r].pc = "c_post"
        /\ UNCHANGED req
        /\ IF IsSuccess(resp.code) /\ ~resp.body.json
           THEN Raise(r, o)
           ELSE /\ obs' = [obs EXCEPT ![r] = o]
                /\ UNCHANGED <<application_status, seen_active>>
                /\ IF ~IsSuccess(resp.code) \/ ~Truthy(query_slug)
                   THEN Respond(r, loc[r], ErrorResponse(500, "Failed to create query"))
                   ELSE Respond(r, [loc[r] EXCEPT !.query_slug = query_slug],
                                [NoResponse EXCEPT !.code = 200,
                                                   !.query_slug = query_slug,
                                                   !.sql_query = loc[r].sql_query,
                                                   !.status = "success",
                                                   !.message = "Query created successfully"])

\* ------------------------------------------------------- execute_query

ExecMaxRetriesOfStart == QUERY_EXECUTION_TIMEOUT \div APP_CHECK_INTERVAL

\* max_retries = QUERY_EXECUTION_TIMEOUT // check_interval
ExecMaxRetries == QUERY_EXECUTION_TIMEOUT \div EXEC_CHECK_INTERVAL

\* The part of the try block the three error extractions share: the first
\* entry of errors with a detail, else detail, else message.
HasErrorsDetail(obj) ==
    Has(obj, "errors") /\ Len(obj.errors) > 0 /\ obj.errors[1].has_detail

\* "detail" in error_obj["errors"][0] raises for an entry that is null; the
\* bare except takes it as it takes a body that is no JSON.
ExtractionRaises(body) ==
    \/ ~body.json
    \/ Has(body, "errors") /\ Len(body.errors) > 0 /\ ~body.errors[1].is_object

TriggerErrorMessageTextFirst(resp) ==
    IF resp.body.text # "" /\ ExtractionRaises(resp.body) THEN resp.body.text
    ELSE IF ExtractionRaises(resp.body) THEN "Request failed with status code " \o Str(resp.code)
    ELSE IF Has(resp.body, "error") THEN resp.body.error
    ELSE IF Has(resp.body, "message") THEN resp.body.message
    ELSE IF Has(resp.body, "detail") THEN resp.body.detail
    ELSE IF HasErrorsDetail(resp.body) THEN resp.body.errors[1].detail
    ELSE "Request failed with status code " \o Str(resp.code)

\* The error message of a failed execution request: the generic text,
\* replaced by the first of errors[0].detail, detail, message, error that a
\* JSON body has, or by the body's text when the body is no JSON and not
\* empty.
TriggerErrorMessage(resp) ==
    LET generic == "Request failed with status code " \o Str(resp.code)
    IN  IF ExtractionRaises(resp.body)
        THEN (IF resp.body.text # "" THEN resp.body.text ELSE generic)
        ELSE IF HasErrorsDetail(resp.body) THEN resp.body.errors[1].detail
        ELSE IF Has(resp.body, "detail") THEN resp.body.detail
        ELSE IF Has(resp.body, "message") THEN resp.body.message
        ELSE IF Has(resp.body, "error") THEN resp.body.error
        ELSE generic

\* The same for a failed status poll and a failed results request, which do
\* not look at "error" and have generic texts of their own.
PollErrorMessage(resp, generic) ==
    IF ExtractionRaises(resp.body)
    THEN (IF resp.body.text # "" THEN resp.body.text ELSE generic)
    ELSE IF HasErrorsDetail(resp.body) THEN resp.body.errors[1].detail
    ELSE IF Has(resp.body, "detail") THEN resp.body.detail
    ELSE IF Has(resp.body, "message") THEN resp.body.message
    ELSE generic

StatusErrorMessage(resp) ==
    PollErrorMessage(resp, "Failed to check execution status: " \o Str(resp.code))

ResultsErrorMessage(resp) ==
    PollErrorMessage(resp, "Failed to get results: " \o Str(resp.code))

FailedMessageMessageFirst(execution) ==
    IF execution.message # Absent THEN execution.message
    ELSE IF execution.error # Absent THEN execution.error
    ELSE "Query execution failed"

\* The message of an execution whose status is "failed".
FailedMessage(execution) ==
    IF execution.error # Absent THEN execution.error
    ELSE IF execution.message # Absent THEN execution.message
    ELSE "Query execution failed"

TimeoutMessageWithoutSeconds == "Query execution timed out"

TimeoutMessage == "Query execution timed out after " \o Str(QUERY_EXECUTION_TIMEOUT) \o "s"

\* execution = response.json(), as far as the code reads it: the status,
\* and error and message of a failed execution.
ExecutionOf(obj) ==
    IF Get(obj, "status") = "failed"
    THEN [status |-> "failed", error |-> Get(obj, "error"), message |-> Get(obj, "message")]
    ELSE [NoExecution EXCEPT !.status = Get(obj, "status")]

DecodedOrEmptyIsFailure(df) ==
    IF df.is_none \/ df.rows = <<>>
    THEN [df |-> NoTable, error_message |-> "Failed to process parquet file"]
    ELSE [df |-> df, error_message |-> Absent]

\* The end of execute_query: no table is an error, an empty table is a result.
Decoded(df) ==
    IF df.is_none
    THEN [df |-> NoTable, error_message |-> "Failed to process parquet file"]
    ELSE [df |-> df, error_message |-> Absent]

\* execute_query returns (df, error_message) and execute_query_endpoint
\* answers: 500 with the message as details when df is None, else 200 with
\* the rows.
ExecuteReturn(r, l, o, ret) ==
    /\ obs' = [obs EXCEPT ![r] = o]
    /\ UNCHANGED <<application_status, seen_active>>
    /\ Respond(r, [l EXCEPT !.df = ret.df, !.error_message = ret.error_message],
               IF ret.df.is_none
               THEN [NoResponse EXCEPT !.code = 500,
                                       !.error = "Query execution failed",
                                       !.query_slug = l.query_slug,
                                       !.page_number = l.page_number,
                                       !.details = ret.error_message]
               ELSE [NoResponse EXCEPT !.code = 200,
                                       !.query_slug = l.query_slug,
                                       !.page = l.page_number,
                                       !.has_data = TRUE,
                                       !.data = ret.df.rows])

Failure(msg) == [df |-> NoTable, error_message |-> msg]

ExecutionCall(r, endpoint) ==
    [NoCall EXCEPT !.endpoint = endpoint, !.x_api_key = Headers(r).x_api_key,
                   !.query_slug = loc[r].query_slug]

\* Execute query for the requested page: the POST.
TriggerExecution(r, resp) ==
    LET o == [obs[r] EXCEPT !.call =
                                [ExecutionCall(r, "POST queries/<slug>/execution/")
                                    EXCEPT !.page_number = loc[r].page_number],
                            !.triggered = resp]
    IN  /\ loc[r].pc = "x_post"
        /\ UNCHANGED req
        /\ IF ~IsSuccess(resp.code)
           THEN ExecuteReturn(r, loc[r], o, Failure(TriggerErrorMessage(resp)))
           ELSE IF ~resp.body.json
           THEN Raise(r, o)
           ELSE /\ loc' = [loc EXCEPT ![r] = [@ EXCEPT !.pc = "x_get",
                                                       !.execution_id = Get(resp.body, "id")]]
                /\ obs' = [obs EXCEPT ![r] = o]
                /\ UNCHANGED <<application_status, response, seen_active>>

\* The test of the while loop and, when the loop ends, the two ifs after it.
\* retry_count is not read again once the loop has ended on a terminal
\* status: it is kept only where the loop ends because the retries are used
\* up.
AfterExecutionStatus(r, l, o) ==
    IF l.execution.status \notin {"complete", "failed"} /\ l.retry_count < ExecMaxRetries
    THEN /\ loc' = [loc EXCEPT ![r] = [l EXCEPT !.pc = "x_poll"]]
         /\ obs' = [obs EXCEPT ![r] = o]
         /\ UNCHANGED <<application_status, response, seen_active>>
    ELSE IF l.execution.status = "failed"
    THEN ExecuteReturn(r, [l EXCEPT !.retry_count = 0], [o EXCEPT !.polls = 0, !.slept = 0],
                       Failure(FailedMessage(l.execution)))
    ELSE IF l.execution.status # "complete"
    THEN ExecuteReturn(r, l, o, Failure(TimeoutMessage))
    ELSE /\ loc' = [loc EXCEPT ![r] = [l EXCEPT !.pc = "x_results", !.retry_count = 0]]
         /\ obs' = [obs EXCEPT ![r] = [o EXCEPT !.polls = 0, !.slept = 0]]
         /\ UNCHANGED <<application_status, response, seen_active>>

\* Wait for execution to complete: the first GET, whose status code is not
\* looked at.
GetExecution(r, resp) ==
    LET o == [obs[r] EXCEPT !.call = ExecutionCall(r, "GET queries/<slug>/execution/<id>/"),
                            !.triggered = NoAnswer]
    IN  /\ loc[r].pc = "x_get"
        /\ UNCHANGED req
        /\ IF ~resp.body.json
           THEN Raise(r, o)
           ELSE AfterExecutionStatus(r, [loc[r] EXCEPT !.execution = ExecutionOf(resp.body)], o)

\* One turn of the loop: sleep, count, GET the status.
PollExecution(r, resp) ==
    LET o == [obs[r] EXCEPT !.call = ExecutionCall(r, "GET queries/<slug>/execution/<id>/"),
                            !.polls = @ + 1,
                            !.slept = @ + EXEC_CHECK_INTERVAL]
        l == [loc[r] EXCEPT !.retry_count = @ + 1]
    IN  /\ loc[r].pc = "x_poll"
        /\ UNCHANGED req
        /\ IF ~IsSuccess(resp.code)
           THEN ExecuteReturn(r, [l EXCEPT !.retry_count = 0],
                              [o EXCEPT !.polls = 0, !.slept = 0, !.refused = resp],
                              Failure(StatusErrorMessage(resp)))
           ELSE IF ~resp.body.json
           THEN Raise(r, o)
           ELSE AfterExecutionStatus(r, [l EXCEPT !.execution = ExecutionOf(resp.body)], o)

\* Get results: the GET of the results descriptor.  requests.get(None)
\* raises when the descriptor has no presigned_url.
GetResults(r, resp) ==
    LET o == [obs[r] EXCEPT !.call =
                 ExecutionCall(r, "GET queries/<slug>/execution/<id>/results/")]
    IN  /\ loc[r].pc = "x_results"
        /\ UNCHANGED req
        /\ IF ~IsSuccess(resp.code)
           THEN ExecuteReturn(r, loc[r], [o EXCEPT !.refused = resp],
                              Failure(ResultsErrorMessage(resp)))
           ELSE IF ~resp.body.json \/ Get(resp.body, "presigned_url") = Absent
           THEN Raise(r, o)
           ELSE /\ loc' = [loc EXCEPT ![r].pc = "x_download"]
                /\ obs' = [obs EXCEPT ![r] = o]
                /\ UNCHANGED <<application_status, response, seen_active>>

\* process_parquet_in_memory: the GET of the presigned URL, which carries no
\* header; None unless the status is 200; pd.read_parquet raises on content
\* that is no parquet file.
ProcessParquet(r, file) ==
    LET o == [obs[r] EXCEPT !.call = [NoCall EXCEPT !.endpoint = "GET presigned_url"]]
    IN  /\ loc[r].pc = "x_download"
        /\ UNCHANGED req
        /\ IF file.code # 200
           THEN ExecuteReturn(r, loc[r], [o EXCEPT !.decoder = "no table"], Decoded(NoTable))
           ELSE IF ~file.parquet
           THEN Raise(r, o)
           ELSE ExecuteReturn(r, loc[r],
                              [o EXCEPT !.decoder = IF file.rows = <<>> THEN "empty table"
                                                    ELSE "table"],
                              Decoded([is_none |-> FALSE, rows |-> file.rows]))

\* ------------------------------------------------------ specifications

\* A step of the handler of thread r, upstream answering from Upstream and
\* the file store from files.
Step(r, Upstream(_), files) ==
    \/ CheckFlag(r)
    \/ \E resp \in Upstream(ApplicationBodies) : ConfirmApplication(r, resp)
    \/ ResetFlag(r)
    \/ \E resp \in Upstream(ApplicationBodies) : StartApplication(r, resp)
    \/ \E resp \in Upstream(ApplicationBodies) : PollApplication(r, resp)
    \/ SetFlag(r)
    \/ EnsureReturn(r)
    \/ \E resp \in Upstream(QueryBodies) : CreateQuery(r, resp)
    \/ \E resp \in Upstream(ExecutionCreatedBodies) : TriggerExecution(r, resp)
    \/ \E resp \in Upstream(ExecutionBodies) : GetExecution(r, resp)
    \/ \E resp \in Upstream(ExecutionBodies) : PollExecution(r, resp)
    \/ \E resp \in Upstream(ResultsBodies) : GetResults(r, resp)
    \/ \E file \in files : ProcessParquet(r, file)
    \/ Forget(r)

\* Two tenants served side by side, their handlers interleaved at will.
Next ==
    \E r \in Requests :
        \/ \E rq \in TenantRequests(r) : Receive(r, rq)
        \/ Step(r, FewUpstreamResponses, FewDownloadResponses)

Spec == Init /\ [][Next]_vars

\* One request at a time, of any shape a client may send, upstream answering
\* with any payload.
NextSeq ==
    \E r \in Requests :
        \/ /\ \A q \in Requests : loc[q].pc = "idle"
           /\ \E rq \in AllRequests : Receive(r, rq)
        \/ Step(r, UpstreamResponses, DownloadResponses)

SpecSeq == Init /\ [][NextSeq]_vars

\* Well-formed requests handled one at a time against every upstream
\* answer, with what the serving layer and upstream guarantee: the thread of
\* a request in hand is scheduled again, and every upstream call it makes is
\* answered.
NextSeqFair ==
    \E r \in Requests :
        \/ /\ \A q \in Requests : loc[q].pc = "idle"
           /\ \E rq \in TenantRequests(r) : Receive(r, rq)
        \/ Step(r, UpstreamResponses, DownloadResponses)

SpecSeqFair ==
    /\ Init /\ [][NextSeqFair]_vars
    /\ \A r \in Requests : WF_vars(Step(r, UpstreamResponses, DownloadResponses))

\* -------------------------------------------------------------- claims

\* The endpoints of the upstream API, which take the x-api-key header.
ApiEndpoints ==
    {"GET application/", "POST application/start/", "POST queries/",
     "POST queries/<slug>/execution/", "GET queries/<slug>/execution/<id>/",
     "GET queries/<slug>/execution/<id>/results/"}

\* Thread r takes a step of its handler.
Moves(r) == loc'[r] # loc[r]

\* C1: under any interleaving and any upstream answers, application_status
\* is None or "active"; it is "active" only if some
\* ensure_application_running call was answered with status "active"
\* before; and every step that changes it is the reset or the set of an
\* ensure_application_running call, never a step of a route, of
\* create_query or of execute_query.
C1_FlagWrittenOnlyByEnsure ==
    /\ [](/\ application_status \in {Absent, "active"}
          /\ application_status = "active" => seen_active)
    /\ [][application_status' # application_status =>
            \E r \in Requests :
                /\ Moves(r)
                /\ \/ loc[r].pc = "e_reset" /\ application_status' = Absent
                   \/ loc[r].pc = "e_set" /\ application_status' = "active"
                /\ \A q \in Requests \ {r} : ~Moves(q)]_vars

\* C1 witness: the flag is "active" while one thread polls an execution and
\* the other is about to create a query.
C1_Witness ==
    /\ application_status = "active"
    /\ \E r, q \in Requests : loc[r].pc = "x_poll" /\ loc[q].pc = "c_post"

\* C2, as claimed: a call whose confirmation check does not end with
\* "active" goes on to clear the flag, whatever made the check fail; the
\* clearing step leaves the flag None; and a call returns True only with
\* status "active" seen by itself.
C2_FailedConfirmationClearsFlag ==
    [][\A r \in Requests :
          /\ (loc[r].pc = "e_confirm" /\ Moves(r) /\ loc'[r].pc # "e_ret")
                => loc'[r].pc = "e_reset"
          /\ (loc[r].pc = "e_reset" /\ Moves(r)) => application_status' = Absent
          /\ (loc'[r].pc = "e_ret" /\ Moves(r) /\ loc'[r].ready = "True")
                => loc'[r].data = "active"]_vars

\* C3: when ensure_application_running returns, it returns True exactly if
\* the last status it was given is "active", and the flag is then "active";
\* a call that returns False - after a refused start POST, a refused status
\* GET or 60 polls without "active" - has not set the flag, and neither has
\* a call that ended in an exception.
C3_EnsureReturnsTrueIffActive ==
    \A r \in Requests :
        /\ loc[r].pc = "e_ret" =>
              /\ loc[r].ready \in {"True", "False"}
              /\ loc[r].ready = "True" <=> loc[r].data = "active"
              /\ loc[r].ready = "True" =>
                    /\ application_status = "active"
                    /\ obs[r].ensure_exit \in {"confirmed", "started"}
                    /\ obs[r].ensure_exit = "started" <=> obs[r].flag_set
              /\ loc[r].ready = "False" =>
                    /\ ~obs[r].flag_set
                    /\ obs[r].ensure_exit \in {"start_failed", "poll_failed", "timeout"}
                    /\ obs[r].ensure_exit = "timeout" =>
                          obs[r].polls = 60 /\ loc[r].retry_count = 60
        /\ obs[r].ensure_exit \in {"confirm_raised", "start_raised", "poll_raised"} =>
              ~obs[r].flag_set

\* C3 witness: a call has set the flag and returned True.
C3_Witness ==
    \E r \in Requests :
        /\ loc[r].pc = "e_ret" /\ loc[r].ready = "True"
        /\ obs[r].flag_set /\ application_status = "active"

\* C4: while execute_query polls, the status it holds is not terminal and
\* it has made fewer than 150 polls, each after a sleep of 2 seconds; it
\* never makes more than 150; when its statuses were all not terminal it
\* ends after exactly 150 polls and 300 seconds of sleep, its last call a
\* status GET and no results request, with no table and the message "Query
\* execution timed out after 300s"; and that message is returned in no other
\* case.
C4_ExecutionTimesOutAfter150Polls ==
    \A r \in Requests :
        /\ obs[r].polls <= 150
        /\ loc[r].pc = "x_poll" =>
              /\ loc[r].execution.status \notin {"complete", "failed"}
              /\ obs[r].polls < 150
              /\ obs[r].polls = loc[r].retry_count
              /\ obs[r].slept = 2 * obs[r].polls
        /\ (loc[r].pc = "done" /\ req[r].route = "results" /\ obs[r].polls = 150) =>
              /\ loc[r].error_message = "Query execution timed out after 300s"
              /\ loc[r].df.is_none
        /\ (loc[r].pc = "done" /\ loc[r].error_message = "Query execution timed out after 300s") =>
              /\ obs[r].polls = 150
              /\ obs[r].slept = 300
              /\ loc[r].execution.status \notin {"complete", "failed"}
              /\ obs[r].call.endpoint = "GET queries/<slug>/execution/<id>/"
              /\ obs[r].decoder = "not called"

\* C4 witness: an execution has timed out after 150 polls.
C4_Witness ==
    \E r \in Requests :
        /\ loc[r].pc = "done"
        /\ loc[r].error_message = "Query execution timed out after 300s"
        /\ obs[r].polls = 150
        /\ response[r].code = 500

\* C5: once the decoder has returned, its outcome decides the result: no
\* table gives the error "Failed to process parquet file" and a 500 with
\* that text as details; a table with zero rows gives that table, no error,
\* and a 200 whose data is the empty array; a table with rows gives a 200
\* with those rows.
C5_EmptyTableIsNotDecodeFailure ==
    \A r \in Requests :
        /\ obs[r].decoder = "no table" =>
              /\ loc[r].pc = "done"
              /\ loc[r].df.is_none
              /\ loc[r].error_message = "Failed to process parquet file"
              /\ response[r].code = 500
              /\ response[r].details = "Failed to process parquet file"
              /\ ~response[r].has_data
        /\ obs[r].decoder = "empty table" =>
              /\ loc[r].pc = "done"
              /\ ~loc[r].df.is_none /\ loc[r].df.rows = <<>>
              /\ loc[r].error_message = Absent
              /\ response[r].code = 200
              /\ response[r].has_data /\ response[r].data = <<>>
        /\ obs[r].decoder = "table" =>
              /\ response[r].code = 200
              /\ response[r].has_data /\ response[r].data # <<>>
              /\ response[r].data = loc[r].df.rows

\* C5 witness: an empty table was decoded and answered with 200 and no rows.
C5_Witness ==
    \E r \in Requests :
        /\ obs[r].decoder = "empty table"
        /\ response[r].code = 200 /\ response[r].data = <<>>
        /\ obs[r].call.endpoint = "GET presigned_url"

\* The first of the candidate messages that applies.
FirstApplicable(candidates) ==
    candidates[CHOOSE i \in 1..Len(candidates) :
                  /\ candidates[i].applies
                  /\ \A j \in 1..(i - 1) : ~candidates[j].applies].text

Candidate(applies, text) == [applies |-> applies, text |-> IF applies THEN text ELSE ""]

\* (a) errors[0].detail, (b) detail, (c) message, (d) error of a JSON body.
FieldCandidates(b) ==
    <<Candidate(b.json /\ "errors" \in b.keys /\ b.errors # <<>> /\ Head(b.errors).has_detail,
                IF b.errors # <<>> THEN Head(b.errors).detail ELSE ""),
      Candidate(b.json /\ "detail" \in b.keys, b.detail),
      Candidate(b.json /\ "message" \in b.keys, b.message),
      Candidate(b.json /\ "error" \in b.keys, b.error)>>

GenericCandidate(code) == Candidate(TRUE, "Request failed with status code " \o Str(code))

\* The precedence as claimed: (e) the raw body text whenever there is one.
ClaimedMessage(answer) ==
    FirstApplicable(FieldCandidates(answer.body)
                    \o <<Candidate(answer.body.text # "", answer.body.text),
                         GenericCandidate(answer.code)>>)

\* The precedence as amended: the raw body text, when there is one, of a
\* body that is no JSON or whose errors[0] is no object, before (a) to (d).
Unreadable(b) == ~b.json \/ ("errors" \in b.keys /\ b.errors # <<>> /\ ~Head(b.errors).is_object)

AmendedMessage(answer) ==
    FirstApplicable(<<Candidate(Unreadable(answer.body) /\ answer.body.text # "", answer.body.text),
                      Candidate(Unreadable(answer.body), GenericCandidate(answer.code).text)>>
                    \o FieldCandidates(answer.body)
                    \o <<GenericCandidate(answer.code)>>)

\* What C6 says of a thread whose execution request was answered with a
\* status other than 200 and 201, for the message the precedence selects.
RefusedExecutionAnswered(r, message) ==
    /\ loc[r].pc = "done"
    /\ loc[r].df.is_none
    /\ loc[r].error_message = message
    /\ response[r].code = 500
    /\ response[r].error = "Query execution failed"
    /\ response[r].details = message
    /\ response[r].page_number = loc[r].page_number
    /\ obs[r].call.endpoint = "POST queries/<slug>/execution/"
    /\ obs[r].call.page_number = loc[r].page_number

\* C6, as claimed: for every page number and every answer to the execution
\* POST with a status other than 200 and 201, execute_query returns the
\* first of errors[0].detail, detail, message, error, the raw body text, the
\* generic "Request failed with status code N", and the route answers 500
\* with that message as details.
C6_TriggerErrorPrecedence ==
    \A r \in Requests :
        (obs[r].triggered # NoAnswer /\ obs[r].triggered.code \notin {200, 201}) =>
            RefusedExecutionAnswered(r, ClaimedMessage(obs[r].triggered))

\* C6, amended: the same, the raw body text (when not empty) being selected
\* for a body that is not JSON or whose errors[0] is not an object, and for
\* no other; a JSON object with none of the four fields gives the generic
\* message.
C6_TriggerErrorPrecedenceAmended ==
    \A r \in Requests :
        (obs[r].triggered # NoAnswer /\ obs[r].triggered.code \notin {200, 201}) =>
            RefusedExecutionAnswered(r, AmendedMessage(obs[r].triggered))

\* C6 witness: upstream answers 404 {"detail": "Not found"} to the execution
\* request for page 2, and the route answers 500 with details "Not found".
C6_Witness ==
    \E r \in Requests :
        /\ obs[r].triggered.code = 404
        /\ obs[r].triggered.body.json /\ obs[r].triggered.body.keys = {"detail"}
        /\ response[r].code = 500 /\ response[r].details = "Not found"
        /\ response[r].page_number = 2

\* The names the 400 of a mixed request lists, for the keys of its body.
OffendingNames(keys) ==
    LET present == keys \cap {"layer", "table", "limit"}
    IN  CASE present = {"layer"} -> "layer"
          [] present = {"table"} -> "table"
          [] present = {"limit"} -> "limit"
          [] present = {"layer", "table"} -> "layer, table"
          [] present = {"layer", "limit"} -> "layer, limit"
          [] present = {"table", "limit"} -> "table, limit"
          [] present = {"layer", "table", "limit"} -> "layer, table, limit"
          [] OTHER -> ""

\* What C7 says of a thread that handles a request mixing the two modes.
MixedModeRejected(r) ==
    /\ loc[r].pc = "done"
    /\ response[r].code = 400
    /\ response[r].error =
          "When 'sql_query' is provided, these parameters are not allowed: "
          \o OffendingNames(req[r].body.keys)
    /\ obs[r] = NoObservation
    /\ response[r].query_slug = Absent

Authenticated(r) == req[r].x_api_key \in {"key-A", "key-B"}

\* C7, as claimed: every body that has sql_query together with layer, table
\* or limit is answered 400 naming exactly the ones it has, with no upstream
\* call.
C7_MixedModesRejected ==
    \A r \in Requests :
        (/\ req[r].route = "create" /\ Authenticated(r)
         /\ "sql_query" \in req[r].body.keys
         /\ req[r].body.keys \cap {"layer", "table", "limit"} # {}) => MixedModeRejected(r)

\* C7, amended: the same for every body whose sql_query is not empty; an
\* empty sql_query counts as not provided and the body is taken as a table
\* specification.
C7_MixedModesRejectedAmended ==
    \A r \in Requests :
        (/\ req[r].route = "create" /\ Authenticated(r)
         /\ "sql_query" \in req[r].body.keys /\ req[r].body.sql_query # ""
         /\ req[r].body.keys \cap {"layer", "table", "limit"} # {}) => MixedModeRejected(r)

\* C7 witness: {"sql_query": "SELECT 1", "layer": ...} is answered 400 naming
\* layer.
C7_Witness ==
    \E r \in Requests :
        /\ req[r].route = "create" /\ Authenticated(r)
        /\ req[r].body.keys = {"sql_query", "layer"}
        /\ req[r].body.sql_query = "SELECT 1"
        /\ response[r].code = 400
        /\ response[r].error =
              "When 'sql_query' is provided, these parameters are not allowed: layer"

\* The page a request asks for: 1 without page_number, n for the decimal
\* text of n >= 1, and 0 for any other text.
RequestedPage(arg) ==
    IF ~arg.present THEN 1
    ELSE IF \E n \in 1..MaxPage : arg.chars = Chars(n)
    THEN CHOOSE n \in 1..MaxPage : arg.chars = Chars(n)
    ELSE 0

\* C8: a results request whose page_number is no integer or less than 1 is
\* answered 400 without a read of the flag and without any upstream call;
\* any other is not answered 400, execute_query is called with the page
\* asked for, the execution POST carries it and the 200 reports it.
C8_PageNumberValidated ==
    \A r \in Requests :
        (req[r].route = "results" /\ Authenticated(r)) =>
            LET page == RequestedPage(req[r].page_arg)
            IN  IF page = 0
                THEN /\ loc[r].pc = "done"
                     /\ response[r].code = 400
                     /\ obs[r] = NoObservation
                ELSE /\ response[r].code # 400
                     /\ loc[r].pc \in {"x_post", "x_get", "x_poll", "x_results", "x_download"}
                           => loc[r].page_number = page
                     /\ obs[r].call.endpoint = "POST queries/<slug>/execution/"
                           => obs[r].call.page_number = page
                     /\ response[r].code = 200 => response[r].page = page

\* C8 witness: page_number=2 was asked for and the execution POST carries 2.
C8_Witness ==
    \E r \in Requests :
        /\ req[r].page_arg = [present |-> TRUE, chars |-> <<"2">>]
        /\ obs[r].call.endpoint = "POST queries/<slug>/execution/"
        /\ obs[r].call.page_number = 2

\* C9: a request to a query route without the x-api-key header is answered
\* 401 at once, whatever its body or page_number: no read or write of the
\* flag, no upstream call; a health request is answered 200 {"status":
\* "ok"} at once, with or without a credential.
C9_NoCredentialNoUpstreamCall ==
    \A r \in Requests :
        /\ (req[r].route \in {"create", "results"} /\ req[r].x_api_key = Absent) =>
              /\ loc[r].pc = "done"
              /\ response[r] = ErrorResponse(401, "Missing API key. Please provide 'x-api-key' header")
              /\ obs[r] = NoObservation
        /\ req[r].route = "health" =>
              /\ loc[r].pc = "done"
              /\ response[r] = [NoResponse EXCEPT !.code = 200, !.status = "ok"]
              /\ obs[r] = NoObservation

\* C9 witness: a well-formed results request without the header is answered
\* 401 while the flag is "active".
C9_Witness ==
    \E r \in Requests :
        /\ req[r].route = "results" /\ req[r].x_api_key = Absent
        /\ req[r].page_arg = NoArg
        /\ application_status = "active"
        /\ response[r].code = 401

\* C10: every call to the upstream API carries the x-api-key value of the
\* inbound request its thread is handling, and so never the credential of
\* the request handled beside it.
C10_CredentialForwarded ==
    \A r \in Requests :
        obs[r].call.endpoint \in ApiEndpoints =>
            /\ obs[r].call.x_api_key = req[r].x_api_key
            /\ obs[r].call.x_api_key # Absent
            /\ \A q \in Requests \ {r} :
                  req[q].x_api_key # req[r].x_api_key
                      => obs[r].call.x_api_key # req[q].x_api_key

\* C10 witness: the two threads are in upstream calls under different
\* credentials, one polling an execution and one creating a query.
C10_Witness ==
    \E r, q \in Requests :
        /\ obs[r].call.endpoint = "GET queries/<slug>/execution/<id>/"
        /\ obs[q].call.endpoint = "POST queries/"
        /\ obs[r].call.x_api_key = "key-A" /\ obs[q].call.x_api_key = "key-B"

\* Thread r's ensure_application_running call has had its start POST
\* accepted and has not returned yet.
Starting(r) == loc[r].pc \in {"e_poll", "e_set"}

\* C11: nothing but its one read of application_status keeps a call from
\* the start POST: a call that reads anything but "active" goes on to the
\* start POST and issues it, whatever the other call is doing, and the flag
\* becomes "active" only when a call's polling has ended; so both calls can
\* be between their accepted start POST and their return at once (the
\* witness), the second POST redundant.
C11_OnlyTheFlagGuardsStart ==
    [][\A r \in Requests :
          /\ (Moves(r) /\ loc[r].pc = "e_check") =>
                loc'[r].pc = IF application_status = "active" THEN "e_confirm" ELSE "e_start"
          /\ (Moves(r) /\ loc[r].pc = "e_start") =>
                /\ obs'[r].call.endpoint = "POST application/start/"
                /\ application_status' = application_status
          /\ (Moves(r) /\ loc[r].pc = "e_poll") => application_status' = application_status]_vars

\* C11 witness: both calls have issued a start POST that upstream accepted;
\* one of them is already polling, the other has just posted.
C11_Witness ==
    \E r, q \in Requests :
        /\ r # q
        /\ Starting(r) /\ Starting(q)
        /\ obs[r].call.endpoint = "GET application/" /\ obs[r].polls >= 1
        /\ obs[q].call.endpoint = "POST application/start/"
        /\ obs[r].call.x_api_key # obs[q].call.x_api_key

\* C12, as claimed: a call that finds the flag "active" is short-circuited:
\* it returns success without a call to upstream under its own credential.
C12_StaleFlagShortCircuits ==
    [][\A r \in Requests :
          (Moves(r) /\ loc[r].pc = "e_check" /\ application_status = "active") =>
              /\ loc'[r].pc = "e_ret" /\ loc'[r].ready = "True"
              /\ obs'[r].call = obs[r].call]_vars

\* C12, amended: a call that finds the flag "active", whoever set it and
\* under whatever credential, skips the start POST and the polling but not
\* the verification: it goes on to one confirmation GET under its own
\* credential, and a call returns True only with the status "active" in the
\* answer to a call it made itself under its own credential.
C12_StaleFlagSkipsStartNotConfirmation ==
    /\ [](\A r \in Requests :
            (loc[r].pc = "e_ret" /\ loc[r].ready = "True") =>
                /\ loc[r].data = "active"
                /\ obs[r].call.endpoint \in {"GET application/", "POST application/start/"}
                /\ obs[r].call.x_api_key = req[r].x_api_key
                /\ obs[r].ensure_exit = "confirmed" =>
                      obs[r].call.endpoint = "GET application/" /\ ~obs[r].flag_set)
    /\ [][\A r \in Requests :
            /\ (Moves(r) /\ loc[r].pc = "e_check" /\ application_status = "active") =>
                  loc'[r].pc = "e_confirm" /\ obs'[r].call = obs[r].call
            /\ (Moves(r) /\ loc[r].pc = "e_confirm") =>
                  /\ obs'[r].call = [NoCall EXCEPT !.endpoint = "GET application/",
                                                   !.x_api_key = req[r].x_api_key]
                  /\ loc'[r].pc \in {"e_ret", "e_reset", "done"}]_vars

\* C12 witness: one request has set the flag under its credential and the
\* other, under another credential, has found it "active" and returned True
\* after its own confirmation GET, without a start POST.
C12_Witness ==
    \E r, q \in Requests :
        /\ req[r].x_api_key # req[q].x_api_key
        /\ loc[r].pc = "e_ret" /\ obs[r].flag_set
        /\ loc[q].pc = "e_ret" /\ loc[q].ready = "True"
        /\ obs[q].ensure_exit = "confirmed"
        /\ obs[q].call = [NoCall EXCEPT !.endpoint = "GET application/",
                                        !.x_api_key = req[q].x_api_key]

\* The text s has the text t in it.
Contains(s, t) == \E i \in 1..(Len(s) - Len(t) + 1) : SubSeq(s, i, i + Len(t) - 1) = t

\* The request of thread r has ended because the application did not become
\* "active" within 60 polls.
StartTimedOut(r) ==
    loc[r].pc = "done" /\ obs[r].ensure_exit = "timeout" /\ obs[r].polls = 60

\* The request of thread r has ended because its execution was not terminal
\* within 150 polls.
ExecutionTimedOut(r) ==
    loc[r].pc = "done" /\ req[r].route = "results" /\ obs[r].polls = 150

\* C13, as claimed: both timeouts are answered 500 with a message that has
\* the configured timeout, 300, in it.
C13_TimeoutsNameTheTimeout ==
    \A r \in Requests :
        /\ StartTimedOut(r) =>
              /\ response[r].code = 500
              /\ \/ Contains(response[r].error, Str(APPLICATION_START_TIMEOUT))
                 \/ Contains(response[r].details, Str(APPLICATION_START_TIMEOUT))
        /\ ExecutionTimedOut(r) =>
              /\ response[r].code = 500
              /\ \/ Contains(response[r].error, Str(QUERY_EXECUTION_TIMEOUT))
                 \/ Contains(response[r].details, Str(QUERY_EXECUTION_TIMEOUT))

\* C13, amended: both timeouts are answered 500 with a fixed message; that
\* of the execution, "Query execution timed out after 300s", has the
\* configured timeout in it, and that of the application start, on either
\* route, is {"error": "Failed to start application"}, which has not.
C13_TimeoutsAnswered500 ==
    \A r \in Requests :
        /\ StartTimedOut(r) =>
              /\ req[r].route \in {"create", "results"}
              /\ response[r] = ErrorResponse(500, "Failed to start application")
              /\ ~Contains(response[r].error, Str(APPLICATION_START_TIMEOUT))
        /\ ExecutionTimedOut(r) =>
              /\ response[r].code = 500
              /\ response[r].error = "Query execution failed"
              /\ response[r].details = "Query execution timed out after 300s"
              /\ Contains(response[r].details, Str(QUERY_EXECUTION_TIMEOUT) \o "s")

\* C13 witness: the application start of a query-creation request has timed
\* out after 60 polls and the request was answered 500.
C13_Witness ==
    \E r \in Requests :
        /\ StartTimedOut(r)
        /\ req[r].route = "create"
        /\ response[r].code = 500

\* The text C14 gives for a layer, a table and the decimal text of a limit
\* ("" for no limit).
TableQueryText(layer, table, limit) ==
    "SELECT\n\t*\nFROM\n\t\"" \o layer \o "\".\"" \o table \o "\""
    \o (IF limit = "" THEN "" ELSE "\nLIMIT " \o limit)

\* The limit a body gives, as decimal text: none for a missing or null
\* limit, and the number for 10 and for "5".
LimitGiven(body) ==
    IF "limit" \notin body.keys \/ body.limit.kind = "null" THEN ""
    ELSE IF body.limit.kind = "int" /\ body.limit.n = 10 THEN "10"
    ELSE IF body.limit.kind = "str" /\ body.limit.chars = <<"5">> THEN "5"
    ELSE "invalid"

\* Thread r handles a table specification that the route accepts.
TableMode(r) ==
    /\ req[r].route = "create" /\ Authenticated(r)
    /\ req[r].body.keys # {}
    /\ "sql_query" \notin req[r].body.keys \/ req[r].body.sql_query = ""
    /\ "layer" \in req[r].body.keys /\ req[r].body.layer # ""
    /\ "table" \in req[r].body.keys /\ req[r].body.table # ""
    /\ LimitGiven(req[r].body) # "invalid"

\* C14: for an accepted table specification the route goes on with the
\* text SELECT\n\t*\nFROM\n\t"layer"."table", the identifiers verbatim
\* between double quotes, followed by \nLIMIT n exactly if a limit is
\* given; that text is what the POST to upstream carries and what the 200
\* echoes as sql_query.
C14_TableQueryText ==
    \A r \in Requests :
        TableMode(r) =>
            LET text == TableQueryText(req[r].body.layer, req[r].body.table,
                                       LimitGiven(req[r].body))
            IN  /\ response[r].code # 400
                /\ loc[r].pc \in {"e_check", "e_confirm", "e_reset", "e_start", "e_poll",
                                  "e_set", "e_ret", "c_post"} => loc[r].sql_query = text
                /\ obs[r].call.endpoint = "POST queries/" => obs[r].call.sql_query = text
                /\ response[r].code = 200 => response[r].sql_query = text
                /\ (req[r].body.layer = "raw" /\ req[r].body.table = "orders") =>
                      \/ LimitGiven(req[r].body) = ""
                            /\ text = "SELECT\n\t*\nFROM\n\t\"raw\".\"orders\""
                      \/ LimitGiven(req[r].body) = "10"
                            /\ text = "SELECT\n\t*\nFROM\n\t\"raw\".\"orders\"\nLIMIT 10"
                      \/ LimitGiven(req[r].body) = "5"
                            /\ text = "SELECT\n\t*\nFROM\n\t\"raw\".\"orders\"\nLIMIT 5"

\* C14 witness: {"layer": "my\"layer", "table": "orders", "limit": 10} was
\* answered 200 with the layer's quote unescaped in sql_query.
C14_Witness ==
    \E r \in Requests :
        /\ TableMode(r)
        /\ req[r].body.layer = "my\"layer" /\ req[r].body.limit.n = 10
        /\ response[r].code = 200
        /\ response[r].sql_query = "SELECT\n\t*\nFROM\n\t\"my\"layer\".\"orders\"\nLIMIT 10"
        /\ obs[r].call.sql_query = response[r].sql_query

\* C15, as claimed: a call that finds the flag "active" issues one
\* confirmation GET; if the answer reports "active" it returns True at once
\* with the flag left as it is, and otherwise it clears the flag and goes on
\* to the start POST; a call that finds the flag None issues no
\* confirmation GET and goes straight to the start POST.
C15_ConfirmOnceThenStart ==
    [][\A r \in Requests :
          /\ (Moves(r) /\ loc[r].pc = "e_check") =>
                /\ obs'[r].call = obs[r].call
                /\ loc'[r].pc = IF application_status = "active" THEN "e_confirm" ELSE "e_start"
          /\ (Moves(r) /\ loc[r].pc = "e_confirm") =>
                /\ obs'[r].call.endpoint = "GET application/"
                /\ application_status' = application_status
                /\ \/ /\ loc'[r].data = "active"
                      /\ loc'[r].pc = "e_ret" /\ loc'[r].ready = "True"
                   \/ /\ loc'[r].data # "active"
                      /\ loc'[r].pc = "e_reset"
          /\ (Moves(r) /\ loc[r].pc = "e_reset") =>
                application_status' = Absent /\ loc'[r].pc = "e_start"
          /\ (Moves(r) /\ loc[r].pc = "e_start") =>
                obs'[r].call.endpoint = "POST application/start/"]_vars

\* The places of ensure_application_running from the start POST on.
StartPlaces == {"e_start", "e_poll", "e_set"}

\* C16: from its start POST on, ensure_application_running comes to an end;
\* it polls only while the status it holds is not "active" and fewer than
\* 60 polls were made, each poll after a sleep of 5 seconds; a start
\* answer "active" leads to no poll at all; and a status GET refused with a
\* code other than 200 and 201 is its last upstream call, with False
\* returned.
C16_StartPollingTerminates ==
    /\ [](\A r \in Requests :
            /\ loc[r].pc \in StartPlaces \cup {"e_ret"} => obs[r].polls <= 60
            /\ loc[r].pc = "e_poll" =>
                  /\ loc[r].data # "active"
                  /\ obs[r].polls < 60
                  /\ loc[r].retry_count = obs[r].polls
                  /\ obs[r].slept = 5 * obs[r].polls
            /\ obs[r].ensure_exit = "timeout" =>
                  obs[r].polls = 60 /\ obs[r].slept = 300 /\ loc[r].data # "active"
            /\ obs[r].ensure_exit = "poll_failed" =>
                  /\ loc[r].pc \in {"e_ret", "done"}
                  /\ loc[r].ready = "False"
                  /\ obs[r].call.endpoint = "GET application/"
                  /\ loc[r].pc = "done" =>
                        response[r] = ErrorResponse(500, "Failed to start application"))
    /\ [][\A r \in Requests :
            /\ (Moves(r) /\ loc[r].pc = "e_start" /\ loc'[r].data = "active") =>
                  loc'[r].pc = "e_set" /\ obs'[r].call.endpoint = "POST application/start/"
            /\ (Moves(r) /\ loc[r].pc = "e_poll") =>
                  /\ obs'[r].call.endpoint = "GET application/"
                  /\ loc'[r].pc \in {"e_poll", "e_set", "e_ret", "done"}
                  /\ loc'[r].pc = "e_poll" =>
                        obs'[r].polls = obs[r].polls + 1 /\ obs'[r].slept = obs[r].slept + 5
                  /\ loc'[r].data = "active" => loc'[r].pc = "e_set"]_vars
    /\ \A r \in Requests : (loc[r].pc \in StartPlaces) ~> (loc[r].pc \notin StartPlaces)

\* C16 witness: the 60th poll is about to be made, after 59 polls and 295
\* seconds of sleep.
C16_Witness ==
    \E r \in Requests :
        loc[r].pc = "e_poll" /\ obs[r].polls = 59 /\ obs[r].slept = 295

\* The precedence of C6 as amended, with the generic message of the call.
PrecedenceMessage(answer, generic) ==
    FirstApplicable(<<Candidate(Unreadable(answer.body) /\ answer.body.text # "", answer.body.text),
                      Candidate(Unreadable(answer.body), generic)>>
                    \o FieldCandidates(answer.body)
                    \o <<Candidate(TRUE, generic)>>)

\* The generic message of the call that thread r made last.
GenericOfCall(r) ==
    IF obs[r].call.endpoint = "GET queries/<slug>/execution/<id>/"
    THEN "Failed to check execution status: " \o Str(obs[r].refused.code)
    ELSE "Failed to get results: " \o Str(obs[r].refused.code)

\* C17, as claimed: a status poll or a results request answered with a
\* status other than 200 and 201 is the last upstream call of execute_query,
\* with no decode, and the error returned is the one the precedence of the
\* execution request selects - errors[0].detail, detail, message, error, the
\* raw body text, the generic message with the status code.
C17_PollAndResultsErrorPrecedence ==
    \A r \in Requests :
        obs[r].refused # NoAnswer =>
            /\ obs[r].refused.code \notin {200, 201}
            /\ loc[r].pc = "done"
            /\ obs[r].call.endpoint \in {"GET queries/<slug>/execution/<id>/",
                                         "GET queries/<slug>/execution/<id>/results/"}
            /\ obs[r].decoder = "not called"
            /\ loc[r].df.is_none
            /\ loc[r].error_message = PrecedenceMessage(obs[r].refused, GenericOfCall(r))
            /\ response[r].code = 500
            /\ response[r].details = loc[r].error_message

\* C18: once the status execute_query holds is "failed" - from the first
\* GET or from a poll - its last upstream call was that status GET, no
\* results request is made, and it has returned the execution's error field
\* if it has one, else its message field if it has one, else "Query
\* execution failed"; the route answers 500 with that text as details.
C18_FailedExecutionMessage ==
    \A r \in Requests :
        loc[r].execution.status = "failed" =>
            LET text == CASE loc[r].execution.error # Absent -> "upstream error"
                          [] loc[r].execution.error = Absent
                                /\ loc[r].execution.message # Absent -> "upstream message"
                          [] OTHER -> "Query execution failed"
            IN  /\ loc[r].pc = "done"
                /\ obs[r].call.endpoint = "GET queries/<slug>/execution/<id>/"
                /\ obs[r].decoder = "not called"
                /\ loc[r].df.is_none
                /\ loc[r].error_message = text
                /\ response[r].code = 500
                /\ response[r].error = "Query execution failed"
                /\ response[r].details = text

\* C18 witness: a failed execution with both fields was answered 500 with
\* its error field as details.
C18_Witness ==
    \E r \in Requests :
        /\ loc[r].execution = [status |-> "failed", error |-> "upstream error",
                               message |-> "upstream message"]
        /\ response[r].code = 500
        /\ response[r].details = "upstream error"

\* What C19 says besides the message of the failure: one POST and no more,
\* and the slug of a 200/201 answer returned as query_slug.
OneCreatePost(r) ==
    /\ loc[r].pc = "done"
    /\ req[r].route = "create"
    /\ obs[r].call.endpoint = "POST queries/"
    /\ obs[r].call.sql_query = response[r].sql_query \/ response[r].code # 200
    /\ (obs[r].created.code \in {200, 201} /\ obs[r].created.body.json
        /\ "slug" \in obs[r].created.body.keys /\ obs[r].created.body.slug # "") =>
            /\ response[r].code = 200
            /\ response[r].query_slug = obs[r].created.body.slug
            /\ response[r].status = "success"

\* C19, as claimed: create_query makes one POST; an answer with a status
\* other than 200 and 201 gives a 500 whose error is the generic message
\* with the status code in it and no upstream detail; a 200/201 answer gives
\* the slug, returned as query_slug.
C19_CreateFailureCarriesStatusCode ==
    \A r \in Requests :
        obs[r].created # NoAnswer =>
            /\ OneCreatePost(r)
            /\ obs[r].created.code \notin {200, 201} =>
                  /\ response[r].code = 500
                  /\ Contains(response[r].error, Str(obs[r].created.code))
                  /\ response[r].details = Absent

\* C19, amended: the same, the error of the 500 being the fixed "Failed to
\* create query", with neither the status code nor any upstream detail in
\* it; a 200/201 answer whose JSON body has no slug, or an empty one, is
\* answered with the same 500.
C19_CreateFailureIsFixedMessage ==
    \A r \in Requests :
        obs[r].created # NoAnswer =>
            /\ OneCreatePost(r)
            /\ obs[r].created.code \notin {200, 201} =>
                  /\ response[r] = ErrorResponse(500, "Failed to create query")
                  /\ ~Contains(response[r].error, Str(obs[r].created.code))
            /\ (obs[r].created.code \in {200, 201} /\ obs[r].created.body.json
                /\ ("slug" \notin obs[r].created.body.keys \/ obs[r].created.body.slug = "")) =>
                  response[r] = ErrorResponse(500, "Failed to create query")

\* C19 witness: the creation POST was answered 404 {"detail": "Not found"}
\* and the route answered 500 "Failed to create query".
C19_Witness ==
    \E r \in Requests :
        /\ obs[r].created.code = 404
        /\ obs[r].created.body.json /\ obs[r].created.body.keys = {"detail"}
        /\ response[r] = ErrorResponse(500, "Failed to create query")

\* The places of create_query and execute_query.
QueryPlaces == {"c_post", "x_post", "x_get", "x_poll", "x_results", "x_download"}

\* C20: a request is in create_query or execute_query only after its own
\* ensure_application_running call has returned True; its query-creation
\* POST and its execution POST are sent from there and from nowhere else;
\* and when the call returns False the route answers 500 "Failed to start
\* application" with the calls to the application endpoints its only
\* upstream calls.
C20_EnsureBeforeQuery ==
    /\ [](\A r \in Requests :
            /\ loc[r].pc \in QueryPlaces => loc[r].ready = "True"
            /\ (loc[r].pc = "done" /\ loc[r].ready = "False") =>
                  /\ response[r] = ErrorResponse(500, "Failed to start application")
                  /\ obs[r].call.endpoint \in {"GET application/", "POST application/start/"}
                  /\ obs[r].triggered = NoAnswer /\ obs[r].created = NoAnswer)
    /\ [][\A r \in Requests :
            /\ (Moves(r) /\ obs'[r].call # obs[r].call
                /\ obs'[r].call.endpoint \in {"POST queries/", "POST queries/<slug>/execution/"}) =>
                  loc[r].ready = "True" /\ loc[r].pc \in {"c_post", "x_post"}
            /\ (Moves(r) /\ loc'[r].pc \in {"c_post", "x_post"}) =>
                  loc[r].pc = "e_ret" /\ loc[r].ready = "True"
            /\ (Moves(r) /\ loc[r].pc = "e_ret" /\ loc[r].ready # "True") =>
                  /\ loc'[r].pc = "done"
                  /\ response'[r] = ErrorResponse(500, "Failed to start application")
                  /\ obs'[r].call = obs[r].call]_vars

\* C20 witness: one request was answered 500 after its start POST was
\* refused, while the other, whose call returned True, is about to send its
\* execution POST.
C20_Witness ==
    \E r, q \in Requests :
        /\ loc[r].pc = "done" /\ loc[r].ready = "False"
        /\ response[r].error = "Failed to start application"
        /\ obs[r].call.endpoint = "POST application/start/"
        /\ loc[q].pc = "x_post" /\ loc[q].ready = "True"

====
